---- MODULE Spec2Model ----
(***************************************************************************)
(* Mynd: the capability-token manager and the context endpoint of the MCP  *)
(* server (src/src/mcp_server.py, src/src/models.py), the context          *)
(* assembler (src/src/vector_storage.py) and the ingestion paths that      *)
(* write the SQLite record store and the ChromaDB similarity index         *)
(* (src/src/main.py, src/src/cli.py, src/src/web_app.py,                   *)
(* src/src/database.py, src/src/semantic_extractor.py).                    *)
(*                                                                         *)
(* Every request handler is one atomic action: the server runs on a single *)
(* asyncio event loop and no handler suspends between its first and last   *)
(* statement (validate_token is a coroutine that never awaits).            *)
(***************************************************************************)
EXTENDS Integers, Sequences, FiniteSets, TLC

\* ------------------------------------------------------------------ bounds

\* datetime.now() is read as an integer clock 0..MaxClock.
MaxClock == 1
\* Number of uuid4 token ids the server draws.
MaxTokens == 1
\* Rows the audit_log table can take before every further insert fails.
MaxAudit == 1
\* Number of uuid4 event ids the extractor draws.
MaxEvents == 3
\* Number of fragments POST /api/memory/add and POST /api/chat take, one a call.
MaxMemories == 2

\* ------------------------------------------------------------------ state

VARIABLES
    now,                \* datetime.now()
    active_tokens,      \* MCPServer.active_tokens: token_id -> CapabilityToken
    capability_tokens,  \* rows of the capability_tokens table
    audit_log,          \* rows of the audit_log table, in insertion order
    response,           \* what the last handler returned to its caller
    validated,          \* history: the validate_token call of the last handler
    issued,             \* history: token_id -> the token create_capability_token returned
    revoked,            \* history: issued token ids a successful revoke_token named
    rejected,           \* history: issued token ids validate_token has rejected
    available,          \* VectorStorage.available
    llm_available,      \* SemanticExtractor.llm_available
    events,             \* rows of the events table: id -> row
    collection,         \* the ChromaDB collection: id -> document and metadata
    event_ids,          \* how many uuid4 event ids have been drawn
    writes,             \* history: the fragments the last ingestion handled
    asked               \* history: the context query of the last handler

tokenVars == <<now, active_tokens, capability_tokens, audit_log, issued, revoked, rejected>>
storeVars == <<events, collection, event_ids, writes>>
historyVars == <<validated, asked>>
envVars == <<available, llm_available>>

vars == <<tokenVars, response, envVars, storeVars, historyVars>>

\* uuid4() token ids: the n-th token drawn has id n.
TokenIds == 1..MaxTokens

\* A bearer string that is no token id the server ever draws.
UnknownToken == 0

\* What a caller can present as a token id: a token id that was handed out, or
\* a string of its own (a uuid4 not yet drawn cannot be guessed).
Presentable == DOMAIN issued \cup {UnknownToken}

\* The empty dict.
EmptyMap == [k \in {} |-> k]

\* del d[key]
Del(d, key) == [k \in DOMAIN d \ {key} |-> d[k]]

\* d[key] = value
Put(d, key, value) == [k \in DOMAIN d \cup {key} |-> IF k = key THEN value ELSE d[k]]

Min(a, b) == IF a <= b THEN a ELSE b

\* The last handler made no validate_token call, or no context query.
NoCall == [called |-> FALSE]

\* ------------------------------------------------------------ str methods

\* s[i] for a 1-based i, as a one-character string.
Char(s, i) == SubSeq(s, i, i)

\* s[:n]
Prefix(s, n) == SubSeq(s, 1, Min(n, Len(s)))

\* s[n:] for a 0-based n
Suffix(s, n) == SubSeq(s, n + 1, Len(s))

StartsWith(s, p) == Len(p) <= Len(s) /\ SubSeq(s, 1, Len(p)) = p

\* sub occurs in s at the 1-based position i
OccursAt(s, sub, i) == SubSeq(s, i, i + Len(sub) - 1) = sub

\* sub in s
Contains(s, sub) == \E i \in 1..(Len(s) - Len(sub) + 1) : OccursAt(s, sub, i)

\* s.find(sub): 0-based, -1 when absent
Find(s, sub) ==
    IF Contains(s, sub)
    THEN (CHOOSE i \in 1..(Len(s) - Len(sub) + 1) :
            /\ OccursAt(s, sub, i)
            /\ \A j \in 1..(i - 1) : ~OccursAt(s, sub, j)) - 1
    ELSE -1

Whitespace == {" ", "\n", "\t", "\r", "\f"}

\* s.strip()
Strip(s) ==
    LET Inked(i) == Char(s, i) \notin Whitespace
    IN  IF \A i \in 1..Len(s) : ~Inked(i) THEN ""
        ELSE SubSeq(s, CHOOSE i \in 1..Len(s) : Inked(i) /\ \A j \in 1..(i - 1) : ~Inked(j),
                       CHOOSE i \in 1..Len(s) : Inked(i) /\ \A j \in (i + 1)..Len(s) : ~Inked(j))

\* s.split(sep) for a one-character sep
RECURSIVE Split(_, _)
Split(s, sep) ==
    LET i == Find(s, sep)
    IN  IF i < 0 THEN <<s>> ELSE <<Prefix(s, i)>> \o Split(Suffix(s, i + 1), sep)

\* sep.join(parts)
RECURSIVE Join(_, _)
Join(sep, parts) ==
    IF parts = <<>> THEN ""
    ELSE IF Len(parts) = 1 THEN parts[1]
    ELSE parts[1] \o sep \o Join(sep, Tail(parts))

UpperCase == <<"A","B","C","D","E","F","G","H","I","J","K","L","M",
               "N","O","P","Q","R","S","T","U","V","W","X","Y","Z">>
LowerCase == <<"a","b","c","d","e","f","g","h","i","j","k","l","m",
               "n","o","p","q","r","s","t","u","v","w","x","y","z">>
Uppers == { UpperCase[i] : i \in 1..26 }
Lowers == { LowerCase[i] : i \in 1..26 }
Digits == {"0","1","2","3","4","5","6","7","8","9"}
\* \w
WordChars == Uppers \cup Lowers \cup Digits \cup {"_"}

LowerChar(c) ==
    IF c \in Uppers THEN LowerCase[CHOOSE i \in 1..26 : UpperCase[i] = c] ELSE c

\* s.lower(), by halves
RECURSIVE Lower(_)
Lower(s) ==
    IF Len(s) <= 1 THEN LowerChar(s)
    ELSE Lower(Prefix(s, Len(s) \div 2)) \o Lower(Suffix(s, Len(s) \div 2))

\* ------------------------------------------------------ re, as PIIDetector uses it

Smallest(S) == CHOOSE x \in S : \A y \in S : x <= y
Largest(S) == CHOOSE x \in S : \A y \in S : y <= x

\* The length of the longest run of characters of cls that starts at s[i].
RunLen(s, i, cls) ==
    LET Stops == { j \in i..Len(s) : Char(s, j) \notin cls }
    IN  IF i < 1 \/ i > Len(s) THEN 0
        ELSE IF Stops = {} THEN Len(s) - i + 1
        ELSE Smallest(Stops) - i

IsWordAt(s, i) == i >= 1 /\ i <= Len(s) /\ Char(s, i) \in WordChars

\* \b just before s[i]
Boundary(s, i) == IsWordAt(s, i - 1) # IsWordAt(s, i)

\* \d{n} at s[i]
DigitsAt(s, i, n) == \A k \in 0..(n - 1) : i + k <= Len(s) /\ Char(s, i + k) \in Digits

Alnum == Uppers \cup Lowers \cup Digits
EmailLocalChars == Alnum \cup {".", "_", "%", "+", "-"}
EmailDomainChars == Alnum \cup {".", "-"}
\* [A-Z|a-z]
EmailTldChars == Uppers \cup Lowers \cup {"|"}

\* \b[A-Za-z0-9._%+-]+@[A-Za-z0-9.-]+\.[A-Z|a-z]{2,}\b matched at s[i]: the length
\* of the match, 0 when there is none.
MatchEmail(s, i) ==
    LET local == RunLen(s, i, EmailLocalChars)
        at    == i + local
        dom   == RunLen(s, at + 1, EmailDomainChars)
        \* (k, t): k domain characters, a dot, t top-level characters, then \b
        Tails(k) == { t \in 2..RunLen(s, at + k + 2, EmailTldChars) :
                        Boundary(s, at + k + 2 + t) }
        Ks    == { k \in 1..(dom - 1) : Char(s, at + 1 + k) = "." /\ Tails(k) # {} }
    IN  IF Boundary(s, i) /\ local >= 1 /\ at <= Len(s) /\ Char(s, at) = "@" /\ Ks # {}
        THEN local + 1 + Largest(Ks) + 1 + Largest(Tails(Largest(Ks)))
        ELSE 0

\* \b\d{3}-\d{3}-\d{4}\b|\b\(\d{3}\)\s*\d{3}-\d{4}\b
MatchPhone(s, i) ==
    LET ws == RunLen(s, i + 5, Whitespace)
    IN  IF /\ Boundary(s, i) /\ DigitsAt(s, i, 3) /\ Char(s, i + 3) = "-"
           /\ DigitsAt(s, i + 4, 3) /\ Char(s, i + 7) = "-" /\ DigitsAt(s, i + 8, 4)
           /\ Boundary(s, i + 12)
        THEN 12
        ELSE IF /\ Boundary(s, i) /\ Char(s, i) = "(" /\ DigitsAt(s, i + 1, 3)
                /\ Char(s, i + 4) = ")" /\ DigitsAt(s, i + 5 + ws, 3)
                /\ Char(s, i + 8 + ws) = "-" /\ DigitsAt(s, i + 9 + ws, 4)
                /\ Boundary(s, i + 13 + ws)
        THEN 13 + ws
        ELSE 0

\* \b\d{3}-\d{2}-\d{4}\b
MatchSsn(s, i) ==
    IF /\ Boundary(s, i) /\ DigitsAt(s, i, 3) /\ Char(s, i + 3) = "-"
       /\ DigitsAt(s, i + 4, 2) /\ Char(s, i + 6) = "-" /\ DigitsAt(s, i + 7, 4)
       /\ Boundary(s, i + 11)
    THEN 11 ELSE 0

\* [-\s]? at s[i]
SepAt(s, i) == IF i <= Len(s) /\ Char(s, i) \in (Whitespace \cup {"-"}) THEN 1 ELSE 0

\* \b\d{4}[-\s]?\d{4}[-\s]?\d{4}[-\s]?\d{4}\b
MatchCreditCard(s, i) ==
    LET g2 == i + 4 + SepAt(s, i + 4)
        g3 == g2 + 4 + SepAt(s, g2 + 4)
        g4 == g3 + 4 + SepAt(s, g3 + 4)
    IN  IF /\ Boundary(s, i) /\ DigitsAt(s, i, 4) /\ DigitsAt(s, g2, 4)
           /\ DigitsAt(s, g3, 4) /\ DigitsAt(s, g4, 4) /\ Boundary(s, g4 + 4)
        THEN g4 + 4 - i ELSE 0

\* [a-zA-Z0-9]{32,}
MatchApiKey(s, i) == IF RunLen(s, i, Alnum) >= 32 THEN RunLen(s, i, Alnum) ELSE 0

\* The length of the run [^\s]* at s[i].
NonSpaceRun(s, i) ==
    LET Stops == { j \in i..Len(s) : Char(s, j) \in Whitespace }
    IN  IF i > Len(s) THEN 0
        ELSE IF Stops = {} THEN Len(s) - i + 1
        ELSE Smallest(Stops) - i

\* word[:\s]*[^\s]+ with re.IGNORECASE, for word = password, token
MatchMarker(word, s, i) ==
    LET n      == Len(word)
        seps   == RunLen(s, i + n, Whitespace \cup {":"})
        rest   == NonSpaceRun(s, i + n + seps)
        \* [:\s]* gives characters back until [^\s]+ can start on a colon
        Colons == { q \in (i + n)..(i + n + seps - 1) : Char(s, q) = ":" }
    IN  IF i + n - 1 > Len(s) \/ Lower(SubSeq(s, i, i + n - 1)) # word THEN 0
        ELSE IF rest >= 1 THEN n + seps + rest
        ELSE IF Colons # {} THEN Largest(Colons) - i + NonSpaceRun(s, Largest(Colons))
        ELSE 0

\* PIIDetector.patterns, in the order of the dict
PiiTypes == <<"email", "phone", "ssn", "credit_card", "api_key", "password", "token">>

MatchPii(pii_type, s, i) ==
    CASE pii_type = "email"       -> MatchEmail(s, i)
      [] pii_type = "phone"       -> MatchPhone(s, i)
      [] pii_type = "ssn"         -> MatchSsn(s, i)
      [] pii_type = "credit_card" -> MatchCreditCard(s, i)
      [] pii_type = "api_key"     -> MatchApiKey(s, i)
      [] pii_type = "password"    -> MatchMarker("password", s, i)
      [] pii_type = "token"       -> MatchMarker("token", s, i)

\* f'[{pii_type.upper()}_REDACTED]'
Placeholder(pii_type) ==
    CASE pii_type = "email"       -> "[EMAIL_REDACTED]"
      [] pii_type = "phone"       -> "[PHONE_REDACTED]"
      [] pii_type = "ssn"         -> "[SSN_REDACTED]"
      [] pii_type = "credit_card" -> "[CREDIT_CARD_REDACTED]"
      [] pii_type = "api_key"     -> "[API_KEY_REDACTED]"
      [] pii_type = "password"    -> "[PASSWORD_REDACTED]"
      [] pii_type = "token"       -> "[TOKEN_REDACTED]"

\* re.sub(pattern, placeholder, s) from s[i] on: the leftmost match is replaced,
\* and the scan goes on after it.
RECURSIVE ReSub(_, _, _)
ReSub(pii_type, s, i) ==
    LET Starts == { j \in i..Len(s) : MatchPii(pii_type, s, j) > 0 }
        j == Smallest(Starts)
    IN  IF Starts = {} THEN SubSeq(s, i, Len(s))
        ELSE SubSeq(s, i, j - 1) \o Placeholder(pii_type)
             \o ReSub(pii_type, s, j + MatchPii(pii_type, s, j))

\* re.search(pattern, s) is not None
ReSearch(pii_type, s) == \E i \in 1..Len(s) : MatchPii(pii_type, s, i) > 0

\* PIIDetector.remove_pii
RECURSIVE remove_pii_from(_, _)
remove_pii_from(text, k) ==
    IF k > Len(PiiTypes) THEN text
    ELSE remove_pii_from(ReSub(PiiTypes[k], text, 1), k + 1)

remove_pii(text) == remove_pii_from(text, 1)

\* --------------------------------------------------- semantic_extractor.py

concept_keywords ==
    << "API", "database", "architecture", "framework", "library",
       "authentication", "security", "performance", "design",
       "implementation", "decision", "choice", "alternative",
       "solution", "problem", "requirement", "feature" >>

\* The matches of \b[A-Z][a-z]+|[a-z]+(?:[A-Z][a-z]*)*\b that begin with an upper
\* case letter: those of the first alternative (a match of the second is all
\* letters and begins with a lower case one, so it hides none of the first).
RECURSIVE CapitalizedWords(_, _)
CapitalizedWords(text, i) ==
    LET Starts == { j \in i..Len(text) :
                      /\ Boundary(text, j) /\ Char(text, j) \in Uppers
                      /\ RunLen(text, j + 1, Lowers) >= 1 }
        j == Smallest(Starts)
        run == RunLen(text, j + 1, Lowers)
    IN  IF Starts = {} THEN <<>>
        ELSE <<SubSeq(text, j, j + run)>> \o CapitalizedWords(text, j + run + 1)

\* list(dict.fromkeys(seq)): seq without its repetitions, first occurrences kept
RECURSIVE Distinct(_)
Distinct(seq) ==
    IF seq = <<>> THEN <<>>
    ELSE LET front == Distinct(SubSeq(seq, 1, Len(seq) - 1))
             last  == seq[Len(seq)]
         IN  IF \E j \in 1..Len(front) : front[j] = last THEN front ELSE Append(front, last)

\* SemanticExtractor.extract_concepts. list(set(concepts))[:10] lists the distinct
\* concepts in the order Python's set gives, which is not specified; the model
\* lists them in the order of their first occurrence.
extract_concepts(text) ==
    LET text_lower == Lower(text)
        HasKeyword(keyword) == Contains(text_lower, Lower(keyword))
        IsConcept(word) == Len(word) > 3
        concepts == SelectSeq(concept_keywords, HasKeyword)
                    \o SelectSeq(CapitalizedWords(text, 1), IsConcept)
        listed == Distinct(concepts)
    IN  SubSeq(listed, 1, Min(10, Len(listed)))

\* An Optional[str] is a sequence of at most one string: None is the empty one.
None == <<>>
Some(s) == <<s>>

\* bool(x) of an Optional[str]
Truthy(x) == x # None /\ x[1] # ""

decision_keywords == <<"decided", "chose", "selected", "picked", "opted">>

\* SemanticExtractor._extract_fallback
_extract_fallback(content) ==
    LET content_lower == Lower(content)
        IsIn(keyword) == Contains(content_lower, keyword)
        found == SelectSeq(decision_keywords, IsIn)
        sentences == Split(content, ".")
        HasFirst(sentence) == Contains(Lower(sentence), found[1])
        with == SelectSeq(sentences, HasFirst)
    IN  [ summary |-> Strip(Prefix(content, 100))
                      \o (IF Len(content) > 100 THEN "..." ELSE ""),
          concepts |-> extract_concepts(content),
          decision_context |->
              Some(IF found # <<>> /\ with # <<>> THEN Strip(with[1]) ELSE "") ]

\* What SemanticExtractor.create_semantic_event extracts from content: the branch
\* taken when self.client.chat returned (llm_ok), the fallback otherwise.
semantic_data(content, llm_ok) ==
    IF llm_ok
    THEN [ summary |-> Prefix(content, 200),
           concepts |-> extract_concepts(content),
           decision_context |-> None ]
    ELSE _extract_fallback(content)

\* How self.client.chat and the reading of its reply can end in _extract_with_llm:
\* a reply holding a JSON object with every required field or without
\* decision_context, a reply with no JSON object in it, or an exception raised
\* by the call or by json.loads (ResponseError is ollama's own, an Exception
\* that is none of the three the except clause names).
LlmOutcomes ==
    { "json", "json_without_decision_context", "no_json",
      "JSONDecodeError", "KeyError", "ConnectionError", "ResponseError" }

\* for field in required_fields: if field not in result: result[field] = ""
with_required_fields(result) ==
    [ field \in DOMAIN result \cup {"summary", "concepts", "decision_context"} |->
        IF field \in DOMAIN result THEN result[field]
        ELSE IF field = "decision_context" THEN Some("") ELSE "" ]

\* How a call ends: with a value returned, or with an exception raised
Returns(value) == [ returned |-> value ]
Raises(exception) == [ raised |-> exception ]

\* SemanticExtractor._extract_with_llm: result is json.loads(json_str) of a reply
\* that holds a JSON object, and caught the exceptions its except clause names.
_extract_with_llm(content, outcome) ==
    LET result == IF outcome = "json"
                  THEN [ summary |-> "summary by the model", concepts |-> <<"model">>,
                         decision_context |-> Some("decision by the model") ]
                  ELSE [ summary |-> "summary by the model", concepts |-> <<"model">> ]
        caught == { "JSONDecodeError", "KeyError", "ConnectionError" }
    IN  IF outcome \in {"json", "json_without_decision_context"}
        THEN Returns(with_required_fields(result))
        ELSE IF outcome = "no_json" \/ outcome \in caught
        THEN Returns(_extract_fallback(content))
        ELSE Raises(outcome)

\* SemanticExtractor.extract_semantic_meaning, with self.llm_available as given
extract_semantic_meaning_of(content, llm, outcome) ==
    IF llm
    THEN _extract_with_llm(remove_pii(content), outcome)
    ELSE Returns(_extract_fallback(remove_pii(content)))

\* SemanticExtractor.is_content_relevant
relevance_indicators ==
    << "decided", "chose", "implemented", "solution", "problem",
       "design", "architecture", "code", "bug", "fix", "feature",
       "research", "analysis", "conclusion", "recommendation" >>

tech_indicators ==
    << "api", "database", "server", "client", "framework",
       "library", "algorithm", "performance", "security" >>

is_content_relevant(content) ==
    LET content_lower == Lower(content)
    IN  /\ ~(Len(Strip(content)) < 50)
        /\ \/ \E k \in 1..Len(relevance_indicators) :
                  Contains(content_lower, relevance_indicators[k])
           \/ \E k \in 1..Len(tech_indicators) :
                  Contains(content_lower, tech_indicators[k])

\* ------------------------------------------------------------- requests

\* Bodies of POST /api/tokens: pydantic checks the types, nothing else.
TokenRequests ==
    { [client_id |-> "claude", scope |-> "context_read", ttl_seconds |-> 1, max_tokens |-> 300],
      [client_id |-> "cursor", scope |-> "admin",        ttl_seconds |-> 1, max_tokens |-> 8000],
      [client_id |-> "claude", scope |-> "root",         ttl_seconds |-> 0, max_tokens |-> 4000] }

\* Bodies of POST /api/context; source_types is an Optional[List[str]], and
\* include_metadata is read by no code.
ContextRequests ==
    { [query |-> "postgresql", max_tokens |-> 2000, source_types |-> <<"document">>],
      [query |-> "postgresql", max_tokens |-> 200,  source_types |-> None],
      [query |-> "postgresql", max_tokens |-> 5,    source_types |-> None] }

\* Bodies of POST /api/memory/add
MemoryEvents ==
    { [ content |-> "We chose PostgreSQL over MongoDB for ACID compliance",
        source_type |-> "chat", metadata |-> EmptyMap ],
      [ content |-> "Email bob@example.com about the API design decision",
        source_type |-> "document", metadata |-> [author |-> "bob"] ] }

\* Bodies of POST /api/chat
ChatMessages ==
    { [message |-> "We chose PostgreSQL over MongoDB for ACID compliance", use_memory |-> TRUE],
      [message |-> "Call 555-123-4567 about the card 4111 1111 1111 1111", use_memory |-> TRUE],
      [message |-> "why postgresql?", use_memory |-> FALSE] }

\* Arguments of the CLI command query
CliQueries ==
    { [query_text |-> "authentication architecture decision", max_tokens |-> 4000],
      [query_text |-> "JWT vs sessions", max_tokens |-> 230],
      [query_text |-> "JWT vs sessions", max_tokens |-> 270] }

\* demo_events of Mynd.initial_capture. Numbers in metadata are written as
\* their str(), and the cent sign of load_demo_data as one ASCII character.
initial_capture_demo_events ==
    << [ source_type |-> "browser",
         source_path |-> "https://docs.python.org/authentication",
         content |-> "Researched JWT vs session authentication. Decided on JWT because mobile app needs stateless auth. Considered security implications of client-side token storage but chose it over Redis complexity.",
         metadata |-> [domain |-> "docs.python.org", visit_count |-> "3"] ],
       [ source_type |-> "document",
         source_path |-> "/Users/dev/projects/auth-decisions.md",
         content |-> "Architecture Decision: JWT Authentication. Problem: Need authentication for web and mobile. Solution: JWT with refresh tokens. Reasoning: Stateless, mobile-friendly, scalable. Trade-offs: XSS risk vs infrastructure simplicity.",
         metadata |-> [file_type |-> "markdown", size |-> "1024"] ],
       [ source_type |-> "code",
         source_path |-> "/Users/dev/projects/user-service/auth.py",
         content |-> "# Implemented JWT authentication with refresh tokens\n# Choice: Used PyJWT library for token handling\n# Security: Added token expiration and refresh mechanism\n# Performance: Tokens cached in memory for validation speed",
         metadata |-> [language |-> "python", lines |-> "150"] ] >>

\* demo_events of the CLI command demo
cli_demo_events ==
    << [ source_type |-> "browser",
         source_path |-> "https://docs.python.org/authentication",
         content |-> initial_capture_demo_events[1].content,
         metadata |-> [domain |-> "docs.python.org", timestamp |-> "2024-03-15"] ],
       [ source_type |-> "document",
         source_path |-> "/Users/dev/projects/auth-decisions.md",
         content |-> initial_capture_demo_events[2].content,
         metadata |-> [file_type |-> "markdown", last_modified |-> "2024-03-15"] ],
       initial_capture_demo_events[3] >>

\* demo_events of load_demo_data
load_demo_events ==
    << [ source_type |-> "decision", source_path |-> "demo_data",
         content |-> "We decided to use JWT tokens with refresh tokens for authentication instead of sessions because of mobile app requirements and stateless architecture needs.",
         metadata |-> [date |-> "2024-03-15", category |-> "authentication"] ],
       [ source_type |-> "decision", source_path |-> "demo_data",
         content |-> "Chose Stripe for payment processing due to comprehensive API, PCI compliance handling, and webhook support. Cost is 2.9% + 30c per transaction.",
         metadata |-> [date |-> "2024-03-20", category |-> "payments"] ],
       [ source_type |-> "architecture", source_path |-> "demo_data",
         content |-> "Architecture decision: Microservices with Node.js/Express backend, React frontend, PostgreSQL database, Redis for caching, deployed on AWS ECS.",
         metadata |-> [date |-> "2024-03-10", category |-> "infrastructure"] ] >>

\* ------------------------------------------------------------ models.py

\* A variant that puts s itself where its digest belongs.
Plain(s) == [plain |-> s]

\* hashlib.sha256(s.encode()).hexdigest()[:16]: a one-way digest of s, never s.
Sha256Hex16(s) == [sha256_16_of |-> s]

\* The ttl_seconds and max_tokens of a token when the request names none: the
\* only limits the code configures.
default_ttl_seconds == 300

default_max_tokens == 4000

CapabilityToken_create(token_id, client_id, scope, ttl_seconds, max_tokens) ==
    [ token_id   |-> token_id,
      client_id  |-> client_id,
      scope      |-> scope,
      expires_at |-> now + ttl_seconds,
      max_tokens |-> max_tokens,
      created_at |-> now ]

\* A variant of is_valid that still accepts a token at the instant it expires.
is_valid_inclusive(token) == now <= token.expires_at

\* CapabilityToken.is_valid
is_valid(token) == now < token.expires_at

\* The timestamp and ip_address columns are left out: no handler reads them.
AuditEvent_create(event_type, ai_client, query_hash, context_tokens, capability_token_hash) ==
    [ event_type            |-> event_type,
      ai_client             |-> ai_client,
      query_hash            |-> query_hash,
      context_tokens        |-> context_tokens,
      capability_token_hash |-> capability_token_hash ]

\* datetime.isoformat() of clock value t
isoformat(t) == "2025-01-01T00:00:0" \o ToString(t)

\* json.dumps(value) of a dict: the text that json.loads turns back into value
json_dumps(value) == [json |-> value]

\* json.dumps(value) of a list of strings that need no escaping
RECURSIVE json_dumps_items(_, _)
json_dumps_items(value, i) ==
    IF i > Len(value) THEN ""
    ELSE (IF i > 1 THEN ", " ELSE "") \o "\"" \o value[i] \o "\"" \o json_dumps_items(value, i + 1)

json_dumps_list(value) == "[" \o json_dumps_items(value, 1) \o "]"

\* SemanticEvent.create, with the id and timestamp its default factories give
SemanticEvent_create(id, source_type, source_path, semantic_summary, concepts, decision_context, metadata) ==
    [ id               |-> id,
      timestamp        |-> now,
      source_type      |-> source_type,
      source_path      |-> source_path,
      semantic_summary |-> semantic_summary,
      concepts         |-> concepts,
      decision_context |-> decision_context,
      metadata         |-> metadata ]

\* semantic_data of every content a handler is given here, worked out once.
KnownContents ==
    { e.content : e \in MemoryEvents } \cup { m.message : m \in ChatMessages }
    \cup { initial_capture_demo_events[i].content : i \in 1..Len(initial_capture_demo_events) }
    \cup { load_demo_events[i].content : i \in 1..Len(load_demo_events) }

semantic_data_of ==
    [ content \in KnownContents |-> [ llm_ok \in BOOLEAN |-> semantic_data(content, llm_ok) ] ]

\* extract_semantic_meaning of every content a handler is given here, worked out once.
extraction_of ==
    [ content \in KnownContents |-> [ llm \in BOOLEAN |-> [ outcome \in LlmOutcomes |->
        extract_semantic_meaning_of(content, llm, outcome) ] ] ]

\* SemanticExtractor.create_semantic_event
create_semantic_event(id, source_type, source_path, content, metadata, llm_ok) ==
    LET data == IF content \in KnownContents THEN semantic_data_of[content][llm_ok]
                ELSE semantic_data(content, llm_ok)
    IN  SemanticEvent_create(id, source_type, source_path, data.summary, data.concepts,
                             data.decision_context, metadata)

\* ----------------------------------------------------------- database.py

\* The outcomes of one INSERT: committed, or sqlite3.Error caught and False returned.
AuditOutcomes == IF Len(audit_log) < MaxAudit THEN BOOLEAN ELSE {FALSE}

log_audit_event(audit_event, ok) ==
    IF ok THEN Append(audit_log, audit_event) ELSE audit_log

store_capability_token(token, ok) ==
    IF ok /\ ~(\E r \in capability_tokens : r.token_id = token.token_id)
    THEN capability_tokens \cup
            { [ token_id   |-> token.token_id,
                client_id  |-> token.client_id,
                scope      |-> token.scope,
                expires_at |-> token.expires_at,
                max_tokens |-> token.max_tokens,
                created_at |-> token.created_at,
                is_active  |-> TRUE ] }
    ELSE capability_tokens

\* MyndDB.store_event: the rows after the call. The INSERT fails on an id the
\* table holds already (PRIMARY KEY) and whenever sqlite3 raises (ok = FALSE).
db_store_event_returns(rows, event, ok) == ok /\ event.id \notin DOMAIN rows

db_store_event(rows, event, ok) ==
    IF db_store_event_returns(rows, event, ok)
    THEN Put(rows, event.id,
             [ id               |-> event.id,
               timestamp        |-> isoformat(event.timestamp),
               source_type      |-> event.source_type,
               source_path      |-> event.source_path,
               semantic_summary |-> event.semantic_summary,
               concepts         |-> json_dumps_list(event.concepts),
               decision_context |-> event.decision_context,
               metadata         |-> json_dumps(event.metadata) ])
    ELSE rows

\* x LIKE '%query%': SQLite's LIKE ignores the case of ASCII letters. (The
\* wildcards % and _ inside query are not modelled.)
Like(x, query) == Contains(Lower(x), Lower(query))

\* MyndDB.search_events: the ids of the rows it returns. Its limit of 50 is
\* above the number of rows the table ever holds here.
search_events(rows, query) ==
    { id \in DOMAIN rows :
        \/ Like(rows[id].semantic_summary, query)
        \/ Like(rows[id].concepts, query)
        \/ /\ rows[id].decision_context # None
           /\ Like(rows[id].decision_context[1], query) }

\* What the local clock, which datetime.now() reads, can be ahead of UTC.
UtcOffsets == {-2, 0, 2}

\* DELETE FROM capability_tokens WHERE datetime(expires_at) < datetime('now')
\* expires_at was written as the isoformat() of a local time without a zone,
\* and datetime('now') is the time in UTC: the local time less utcoffset.
db_cleanup_expired_tokens(utcoffset) ==
    { r \in capability_tokens : ~(r.expires_at < now - utcoffset) }

\* ------------------------------------------------------- vector_storage.py

\* d.get(key, default)
Get(d, key, default) == IF key \in DOMAIN d THEN d[key] ELSE default

\* The metadata VectorStorage.store_event gives a document. The values of
\* event.metadata are modelled by their str(): every one is a scalar.
vector_metadata(event) ==
    LET custom == { "meta_" \o k : k \in DOMAIN event.metadata }
        fixed  == {"source_type", "source_path", "timestamp", "concepts"}
    IN  [ key \in fixed \cup custom |->
            CASE key = "source_type" -> event.source_type
              [] key = "source_path" -> event.source_path
              [] key = "timestamp"   -> isoformat(event.timestamp)
              [] key = "concepts"    -> Join(",", event.concepts)
              [] OTHER               -> event.metadata[Suffix(key, 5)] ]

\* content_for_embedding
content_for_embedding(event) ==
    event.semantic_summary \o " " \o Join(" ", event.concepts)
    \o (IF Truthy(event.decision_context) THEN " " \o event.decision_context[1] ELSE "")

\* VectorStorage.store_event: what it returns, and the collection after the call.
\* ok = FALSE: collection.add raised.
vector_store_event_returns(event, ok) == available /\ ok

vector_store_event(docs, event, ok) ==
    IF vector_store_event_returns(event, ok)
    THEN Put(docs, event.id,
             [ id |-> event.id, content |-> content_for_embedding(event),
               metadata |-> vector_metadata(event) ])
    ELSE docs

\* The ranked lists collection.query can return for n_results = limit: ChromaDB
\* ranks by a distance of its own, so every order of every limit documents.
Rankings(docs, limit) ==
    LET n == Min(limit, Cardinality(DOMAIN docs))
    IN  { [ i \in 1..n |-> docs[order[i]] ] :
            order \in { f \in [1..n -> DOMAIN docs] :
                          \A i, j \in 1..n : f[i] = f[j] => i = j } }

\* VectorStorage.search_similar: the lists it can return. The empty list is
\* returned when the store is not available and when the query raises.
search_similar(docs, query, limit) ==
    IF ~available THEN { <<>> } ELSE Rankings(docs, limit) \cup { <<>> }

\* context_entry of get_context_for_query for similar_events[i]; enumerate
\* counts from 0, the sequence here from 1, so i is the i+1 of the code.
context_entry(similar_events, i) ==
    LET metadata    == similar_events[i].metadata
        content     == similar_events[i].content
        source_info == "[" \o Get(metadata, "source_type", "unknown") \o "]"
        timestamp   == Prefix(Get(metadata, "timestamp", "unknown"), 10)
    IN  "\n" \o ToString(i) \o ". " \o source_info \o " ("
        \o timestamp \o "):\n" \o content \o "\n"

\* A variant of the loop that cuts the entry that does not fit down to the
\* tokens that are left, instead of leaving it out.
RECURSIVE context_entries_truncating(_, _, _, _, _)
context_entries_truncating(similar_events, i, max_tokens, context_parts, total_tokens) ==
    IF i > Len(similar_events)
    THEN [ context_parts |-> context_parts, total_tokens |-> total_tokens ]
    ELSE LET event_tokens == Len(similar_events[i].content) \div 4
             left         == IF max_tokens - 200 > total_tokens
                             THEN max_tokens - 200 - total_tokens ELSE 0
         IN  IF total_tokens + event_tokens > max_tokens - 200
             THEN [ context_parts |-> Append(context_parts,
                                             Prefix(context_entry(similar_events, i), 4 * left)),
                    total_tokens  |-> total_tokens + left ]
             ELSE context_entries_truncating(similar_events, i + 1, max_tokens,
                                  Append(context_parts, context_entry(similar_events, i)),
                                  total_tokens + event_tokens)

\* A variant of the loop that fills the budget to the brim, without the margin
\* of 200 tokens.
RECURSIVE context_entries_without_margin(_, _, _, _, _)
context_entries_without_margin(similar_events, i, max_tokens, context_parts, total_tokens) ==
    IF i > Len(similar_events)
    THEN [ context_parts |-> context_parts, total_tokens |-> total_tokens ]
    ELSE LET event_tokens == Len(similar_events[i].content) \div 4
         IN  IF total_tokens + event_tokens > max_tokens
             THEN [ context_parts |-> context_parts, total_tokens |-> total_tokens ]
             ELSE context_entries_without_margin(similar_events, i + 1, max_tokens,
                                  Append(context_parts, context_entry(similar_events, i)),
                                  total_tokens + event_tokens)

\* A variant of the loop that passes over the candidate that does not fit
\* (continue) and goes on to the later ones, instead of stopping at it (break).
RECURSIVE context_entries_skipping(_, _, _, _, _)
context_entries_skipping(similar_events, i, max_tokens, context_parts, total_tokens) ==
    IF i > Len(similar_events)
    THEN [ context_parts |-> context_parts, total_tokens |-> total_tokens ]
    ELSE LET event_tokens == Len(similar_events[i].content) \div 4
         IN  IF total_tokens + event_tokens > max_tokens - 200
             THEN context_entries_skipping(similar_events, i + 1, max_tokens,
                                           context_parts, total_tokens)
             ELSE context_entries_skipping(similar_events, i + 1, max_tokens,
                                  Append(context_parts, context_entry(similar_events, i)),
                                  total_tokens + event_tokens)

\* The loop of get_context_for_query over similar_events[i..], with its break.
RECURSIVE context_entries(_, _, _, _, _)
context_entries(similar_events, i, max_tokens, context_parts, total_tokens) ==
    IF i > Len(similar_events)
    THEN [ context_parts |-> context_parts, total_tokens |-> total_tokens ]
    ELSE LET event_tokens == Len(similar_events[i].content) \div 4
         IN  IF total_tokens + event_tokens > max_tokens - 200
             THEN [ context_parts |-> context_parts, total_tokens |-> total_tokens ]
             ELSE context_entries(similar_events, i + 1, max_tokens,
                                  Append(context_parts, context_entry(similar_events, i)),
                                  total_tokens + event_tokens)

\* VectorStorage.get_context_for_query, for the list search_similar returned
get_context_for_query(query, max_tokens, similar_events) ==
    IF ~available THEN "Vector search not available - install ChromaDB"
    ELSE IF similar_events = <<>> THEN "No relevant context found in your memory."
    ELSE LET built == context_entries(similar_events, 1, max_tokens,
                                      << "Relevant context for '" \o query \o "':\n" >>, 0)
         IN  Join("", Append(built.context_parts,
                             "\nFound " \o ToString(Len(similar_events))
                             \o " relevant memories using "
                             \o ToString(built.total_tokens) \o " tokens."))

\* ---------------------------------------------------------- mcp_server.py

\* MCPServer.validate_token: the outcome, and active_tokens after the call.
validate_token(token_id) ==
    IF token_id \notin DOMAIN active_tokens
    THEN [ ok |-> FALSE, status |-> 401, detail |-> "Invalid capability token",
           active |-> active_tokens ]
    ELSE IF ~is_valid(active_tokens[token_id])
    THEN [ ok |-> FALSE, status |-> 401, detail |-> "Capability token expired",
           active |-> Del(active_tokens, token_id) ]
    ELSE [ ok |-> TRUE, status |-> 200, detail |-> "",
           active |-> active_tokens ]

\* The record of a validate_token call: its argument, the clock and the history
\* at the call, and its outcome.
Call(token_id, v) ==
    [ called |-> TRUE, token_id |-> token_id, at |-> now,
      revoked_before |-> token_id \in revoked,
      rejected_before |-> token_id \in rejected,
      ok |-> v.ok, status |-> v.status, detail |-> v.detail ]

Rejected(token_id, v) ==
    IF ~v.ok /\ token_id \in DOMAIN issued THEN rejected \cup {token_id} ELSE rejected

\* MCPServer.extract_sources, over lines[i..]
RECURSIVE extract_sources_from(_, _, _)
extract_sources_from(lines, i, sources) ==
    IF i > Len(lines) THEN sources
    ELSE LET line       == lines[i]
             source_end == Find(line, "]")
             source     == SubSeq(line, 2, source_end)
         IN  IF /\ StartsWith(Strip(line), "[") /\ Contains(line, "]")
                /\ source_end > 0
                /\ ~(\E j \in 1..Len(sources) : sources[j] = source)
             THEN extract_sources_from(lines, i + 1, Append(sources, source))
             ELSE extract_sources_from(lines, i + 1, sources)

extract_sources(context) == extract_sources_from(Split(context, "\n"), 1, <<>>)

\* A variant of the sweep that also loads back every row of the table that has
\* not expired.
cleanup_reloading_rows ==
    LET kept == { t \in DOMAIN active_tokens : is_valid(active_tokens[t]) }
        rows == { r \in capability_tokens : now < r.expires_at }
    IN  [ k \in kept \cup { r.token_id : r \in rows } |->
            IF k \in kept THEN active_tokens[k]
            ELSE LET r == CHOOSE r \in rows : r.token_id = k
                 IN  [ token_id |-> r.token_id, client_id |-> r.client_id,
                       scope |-> r.scope, expires_at |-> r.expires_at,
                       max_tokens |-> r.max_tokens, created_at |-> r.created_at ] ]

\* A variant of the removal in revoke_token that leaves the entry in place.
revoke_keeping_entry(active, token_id) == active

\* revoke_token: if token_id in self.active_tokens: del self.active_tokens[token_id]
revoke_from_active(active, token_id) ==
    IF token_id \in DOMAIN active THEN Del(active, token_id) ELSE active

\* MCPServer.cleanup_expired_tokens
cleanup_expired_tokens ==
    [ k \in { t \in DOMAIN active_tokens : is_valid(active_tokens[t]) } |-> active_tokens[k] ]

\* The fields of MCPResponse.to_dict but query_id, a fresh uuid4 nothing reads.
MCPResponse_to_dict(context, tokens_used, sources, capability_token, expires_at) ==
    [ context          |-> context,
      tokens_used      |-> tokens_used,
      sources          |-> sources,
      capability_token |-> capability_token,
      expires_at       |-> isoformat(expires_at) ]

\* A variant in which the handler's except Exception clause catches the
\* HTTPException too and answers 500.
HTTPException_caught(op, status_code, detail) ==
    [ op |-> op, status |-> 500, detail |-> "Context retrieval failed: " \o detail ]

\* HTTPException(status_code, detail) as the client sees it
HTTPException(op, status_code, detail) ==
    [ op |-> op, status |-> status_code, detail |-> detail ]

\* The record of a context query: its arguments, the limit of the token it ran
\* under (0 on the CLI, which has none) and the matches the search gave.
Asked(query, request_max_tokens, token_max_tokens, source_types, similar_events) ==
    [ called |-> TRUE, query |-> query, request_max_tokens |-> request_max_tokens,
      source_types |-> source_types,
      token_max_tokens |-> token_max_tokens, matches |-> Len(similar_events),
      similar_events |-> similar_events ]

\* ------------------------------------------------------------- web_app.py

\* str.split() with no argument: the number of words it returns
WordCount(s) ==
    Cardinality({ i \in 1..Len(s) :
                    /\ Char(s, i) \notin Whitespace
                    /\ (i = 1 \/ Char(s, i - 1) \in Whitespace) })

\* any(word in s for word in words)
AnyIn(words, s) == \E k \in 1..Len(words) : Contains(s, words[k])

generate_ai_response(message) ==
    LET msg_lower == Strip(Lower(message))
    IN  IF AnyIn(<<"hi", "hello", "hey">>, msg_lower)
        THEN "Hello! How can I help you today?"
        ELSE IF Contains(msg_lower, "how are you")
        THEN "I'm doing well, thank you! How can I assist you?"
        ELSE IF AnyIn(<<"thank", "thanks">>, msg_lower)
        THEN "You're welcome!"
        ELSE IF AnyIn(<<"bye", "goodbye", "see you">>, msg_lower)
        THEN "Goodbye! Have a great day!"
        ELSE IF AnyIn(<<"what", "when", "where", "who", "how", "why", "?">>, msg_lower)
        THEN "I don't have specific information about that. Could you provide more details?"
        ELSE IF WordCount(message) > 3
        THEN "I understand. Is there anything specific you'd like help with?"
        ELSE "Got it. What can I help you with?"

\* chat: the contents of memory_events that pass its filter. The distance of
\* each is ChromaDB's, so any of them can be the best one, with a confidence of
\* 50 or more or of less.
chat_candidates(memory_events, message) ==
    { memory_events[i].content : i \in
        { j \in 1..Len(memory_events) :
            LET content == memory_events[j].content
                is_question == \/ AnyIn(<<"what", "when", "where", "who", "how", "why">>,
                                        Lower(content))
                               \/ Contains(content, "?")
                is_greeting == AnyIn(<<"hi", "hello", "hey">>, Lower(content))
                is_same_message == content = message
            IN  /\ content # ""
                /\ ~is_same_message /\ ~is_question /\ ~is_greeting
                /\ WordCount(content) > 3 } }

\* What chat returns, but response_time and total_events.
chat_returns(text, use_memory) ==
    [ op |-> "chat", response |-> text, memory_context |-> <<>>,
      memory_used |-> IF use_memory THEN Len(text) \div 4 ELSE 0,
      relevance_score |-> 0 ]

add_memory_returns(success, event_id) ==
    [ op |-> "add_memory", success |-> success, event_id |-> event_id ]

load_demo_data_returns(events_created) ==
    [ op |-> "load_demo_data", success |-> TRUE, events_created |-> events_created ]

\* ---------------------------------------------------------------- main.py

\* What initial_capture prints when it ends
initial_capture_returns(events_created) ==
    [ op |-> "initial_capture", events_created |-> events_created ]

\* ------------------------------------------------ dual write of a fragment

\* How the calls an ingestion makes for one fragment can end: the LLM call
\* returns or raises, the INSERT commits or raises, collection.add returns or raises.
FragmentOutcomes ==
    { o \in [llm : BOOLEAN, db : BOOLEAN, vec : BOOLEAN] : o.llm => llm_available }

\* One entry of the history writes: the content a handler was given, the
\* fragment made of it, whether the record store took it, whether the handler
\* called the index for it, and whether the index took it.
Written(content, event, stored, index_called, indexed) ==
    [ content |-> content, event |-> event, stored |-> stored,
      index_called |-> index_called, indexed |-> indexed ]

\* The stores as a handler finds them, and what it has written and counted.
Stores ==
    [ events |-> events, collection |-> collection, event_ids |-> event_ids,
      writes |-> <<>>, events_created |-> 0 ]

\* if self.db.store_event(event):
\*     self.vector_store.store_event(event)
\*     events_created += 1
\* as initial_capture has it, and load_demo_data and add_memory (web_app.py) too.
store_then_index(st, content, event, o) ==
    LET stored == db_store_event_returns(st.events, event, o.db)
    IN  [ events     |-> db_store_event(st.events, event, o.db),
          collection |-> IF stored THEN vector_store_event(st.collection, event, o.vec)
                         ELSE st.collection,
          event_ids  |-> event.id,
          writes     |-> Append(st.writes,
                                Written(content, event, stored, stored,
                                        stored /\ vector_store_event_returns(event, o.vec))),
          events_created |-> st.events_created + (IF stored THEN 1 ELSE 0) ]

\* The loop of Mynd.initial_capture over demo_events[i..]
RECURSIVE initial_capture_loop(_, _, _)
initial_capture_loop(i, outcome, st) ==
    IF i > Len(initial_capture_demo_events) THEN st
    ELSE IF ~is_content_relevant(initial_capture_demo_events[i].content)
    THEN initial_capture_loop(i + 1, outcome, st)
    ELSE initial_capture_loop(i + 1, outcome,
            store_then_index(st, initial_capture_demo_events[i].content,
                create_semantic_event(st.event_ids + 1,
                                      initial_capture_demo_events[i].source_type,
                                      initial_capture_demo_events[i].source_path,
                                      initial_capture_demo_events[i].content,
                                      initial_capture_demo_events[i].metadata,
                                      outcome[i].llm),
                outcome[i]))

\* ----------------------------------------------------------------- cli.py

\* vault.db.store_event(event)
\* vault.vector_store.store_event(event)
\* as the CLI command demo has it, and chat (web_app.py) too.
store_and_index(st, content, event, o) ==
    [ events     |-> db_store_event(st.events, event, o.db),
      collection |-> vector_store_event(st.collection, event, o.vec),
      event_ids  |-> event.id,
      writes     |-> Append(st.writes,
                            Written(content, event,
                                    db_store_event_returns(st.events, event, o.db), TRUE,
                                    vector_store_event_returns(event, o.vec))),
      events_created |-> st.events_created ]

\* The loop of the CLI command demo over demo_events[i..]
RECURSIVE demo_loop(_, _, _)
demo_loop(i, outcome, st) ==
    IF i > Len(cli_demo_events) THEN st
    ELSE demo_loop(i + 1, outcome,
            store_and_index(st, cli_demo_events[i].content,
                create_semantic_event(st.event_ids + 1, cli_demo_events[i].source_type,
                                      cli_demo_events[i].source_path,
                                      cli_demo_events[i].content,
                                      cli_demo_events[i].metadata, outcome[i].llm),
                outcome[i]))

\* The loop of load_demo_data (web_app.py) over demo_events[i..]
RECURSIVE load_demo_data_loop(_, _, _)
load_demo_data_loop(i, outcome, st) ==
    IF i > Len(load_demo_events) THEN st
    ELSE load_demo_data_loop(i + 1, outcome,
            store_then_index(st, load_demo_events[i].content,
                create_semantic_event(st.event_ids + 1, load_demo_events[i].source_type,
                                      "demo_data", load_demo_events[i].content,
                                      load_demo_events[i].metadata, outcome[i].llm),
                outcome[i]))

\* --------------------------------------------------------------- actions

Init ==
    /\ now = 0
    /\ active_tokens = EmptyMap
    /\ capability_tokens = {}
    /\ audit_log = <<>>
    /\ response = [op |-> "none"]
    /\ validated = NoCall
    /\ issued = EmptyMap
    /\ revoked = {}
    /\ rejected = {}
    /\ available \in BOOLEAN
    /\ llm_available \in BOOLEAN
    /\ events = EmptyMap
    /\ collection = EmptyMap
    /\ event_ids = 0
    /\ writes = <<>>
    /\ asked = NoCall

\* Time passes.
Tick ==
    /\ now < MaxClock
    /\ now' = now + 1
    /\ UNCHANGED <<active_tokens, capability_tokens, audit_log, response, validated,
                   issued, revoked, rejected, asked, envVars, storeVars>>

\* POST /api/tokens
create_capability_token ==
    \E request \in TokenRequests, stored \in BOOLEAN, logged \in AuditOutcomes :
        LET token_id == Cardinality(DOMAIN issued) + 1
            token == CapabilityToken_create(token_id, request.client_id, request.scope,
                                            request.ttl_seconds, request.max_tokens)
        IN  /\ token_id <= MaxTokens
            /\ capability_tokens' = store_capability_token(token, stored)
            /\ active_tokens' = Put(active_tokens, token_id, token)
            /\ audit_log' = log_audit_event(
                   AuditEvent_create("token_created", request.client_id, "", 0,
                                     Sha256Hex16(token_id)), logged)
            /\ response' = [ op |-> "create_capability_token", status |-> 200,
                             token |-> token_id, expires_at |-> token.expires_at,
                             scope |-> token.scope, max_tokens |-> token.max_tokens ]
            /\ issued' = Put(issued, token_id, token)
            /\ validated' = NoCall
            /\ asked' = NoCall
            /\ UNCHANGED <<now, revoked, rejected, envVars, storeVars>>

\* GET /api/stats: validate_token and nothing else that changes state.
get_statistics ==
    \E credentials \in Presentable :
        LET v == validate_token(credentials)
        IN  /\ active_tokens' = v.active
            /\ validated' = Call(credentials, v)
            /\ rejected' = Rejected(credentials, v)
            /\ response' =
                 IF v.ok
                 THEN [ op |-> "get_statistics", status |-> 200,
                        client_id |-> active_tokens[credentials].client_id ]
                 ELSE [ op |-> "get_statistics", status |-> v.status, detail |-> v.detail ]
            /\ asked' = NoCall
            /\ UNCHANGED <<now, capability_tokens, audit_log, issued, revoked,
                           envVars, storeVars>>

\* A variant of the removal in revoke_token without the membership test before
\* it: del raises KeyError for an id that is no longer in the map.
revoke_raises_unguarded(active, token_id) == token_id \notin DOMAIN active

\* Whether the removal in revoke_token raises: the del is under
\* if token_id in self.active_tokens, and nothing runs between the two.
revoke_raises(active, token_id) == FALSE

\* A variant of the check in revoke_token that lets every valid token revoke.
cannot_revoke_never(token_id, current_token) == FALSE

\* revoke_token: token_id != current_token.token_id and current_token.scope != "admin"
cannot_revoke(token_id, current_token) ==
    token_id # current_token.token_id /\ current_token.scope # "admin"

\* DELETE /api/tokens/{token_id}, for one path parameter and one bearer token
revoke_token_of(token_id, credentials) ==
    \E logged \in AuditOutcomes :
        LET v == validate_token(credentials)
        IN  /\ validated' = Call(credentials, v)
            /\ rejected' = Rejected(credentials, v)
            /\ IF ~v.ok
               THEN /\ active_tokens' = v.active
                    /\ response' = [ op |-> "revoke_token", status |-> v.status,
                                     detail |-> v.detail ]
                    /\ UNCHANGED <<audit_log, revoked>>
               ELSE IF cannot_revoke(token_id, active_tokens[credentials])
               THEN /\ active_tokens' = v.active
                    /\ response' = [ op |-> "revoke_token", status |-> 403,
                                     detail |-> "Cannot revoke other tokens" ]
                    /\ UNCHANGED <<audit_log, revoked>>
               ELSE IF revoke_raises(v.active, token_id)
               THEN /\ active_tokens' = v.active
                    /\ response' = [ op |-> "revoke_token", status |-> 500,
                                     detail |-> "Token revocation failed: KeyError" ]
                    /\ UNCHANGED <<audit_log, revoked>>
               ELSE /\ active_tokens' = revoke_from_active(v.active, token_id)
                    /\ audit_log' = log_audit_event(
                           AuditEvent_create("token_revoked",
                                             active_tokens[credentials].client_id, "", 0,
                                             Sha256Hex16(token_id)), logged)
                    /\ response' = [ op |-> "revoke_token", status |-> 200,
                                     detail |-> "Token revoked successfully" ]
                    /\ revoked' = revoked \cup ({token_id} \cap DOMAIN issued)
            /\ asked' = NoCall
            /\ UNCHANGED <<now, capability_tokens, issued, envVars, storeVars>>

\* DELETE /api/tokens/{token_id}
revoke_token ==
    \E token_id \in Presentable, credentials \in Presentable :
        revoke_token_of(token_id, credentials)

\* One round of MCPServer.start_background_tasks, after its sleep.
start_background_tasks ==
    /\ active_tokens' = cleanup_expired_tokens
    /\ \E utcoffset \in UtcOffsets : capability_tokens' = db_cleanup_expired_tokens(utcoffset)
    /\ UNCHANGED <<now, audit_log, response, validated, issued, revoked, rejected, asked,
                   envVars, storeVars>>

\* MCPServer.__init__ when the process is started again on its data directory:
\* the map of active tokens starts empty, and what sqlite and ChromaDB hold stays.
MCPServer_init ==
    /\ active_tokens' = EmptyMap
    /\ response' = [op |-> "none"]
    /\ validated' = NoCall
    /\ asked' = NoCall
    /\ UNCHANGED <<now, capability_tokens, audit_log, issued, revoked, rejected,
                   envVars, storeVars>>

\* The body of get_context, which search_context runs too.
\* context_query.source_types goes no further than the ContextQuery: the search
\* is called with the query and the limit alone.
get_context_body(op, request, credentials) ==
    LET v == validate_token(credentials)
    IN  /\ validated' = Call(credentials, v)
        /\ rejected' = Rejected(credentials, v)
        /\ active_tokens' = v.active
        /\ IF ~v.ok
           THEN /\ response' = HTTPException(op, v.status, v.detail)
                /\ asked' = NoCall
                /\ UNCHANGED audit_log
           ELSE \E similar_events \in search_similar(collection, request.query, 20) :
                  LET token       == active_tokens[credentials]
                      max_tokens  == Min(request.max_tokens, token.max_tokens)
                      context     == get_context_for_query(request.query, max_tokens,
                                                           similar_events)
                      tokens_used == Len(context) \div 4
                  IN  /\ \E logged \in AuditOutcomes :
                           audit_log' = log_audit_event(
                             AuditEvent_create("context_accessed", token.client_id,
                                               Sha256Hex16(request.query), tokens_used,
                                               Sha256Hex16(token.token_id)), logged)
                      /\ response' =
                           [ op |-> op, status |-> 200, success |-> TRUE,
                             data |-> MCPResponse_to_dict(context, tokens_used,
                                                          extract_sources(context),
                                                          token.token_id, token.expires_at),
                             message |-> "Context retrieved successfully" ]
                      /\ asked' = Asked(request.query, request.max_tokens, token.max_tokens,
                                        request.source_types, similar_events)
        /\ UNCHANGED <<now, capability_tokens, issued, revoked, envVars, storeVars>>

\* POST /api/context
get_context ==
    \E request \in ContextRequests, credentials \in Presentable :
        get_context_body("get_context", request, credentials)

\* GET /api/search/{query}
search_context ==
    \E request \in ContextRequests, credentials \in Presentable :
        get_context_body("search_context",
                         [query |-> request.query, max_tokens |-> request.max_tokens,
                          source_types |-> None],
                         credentials)

\* The CLI command query: Mynd.get_context_for_query, and the context echoed.
query ==
    \E arguments \in CliQueries :
    \E similar_events \in search_similar(collection, arguments.query_text, 20) :
        LET context == get_context_for_query(arguments.query_text, arguments.max_tokens,
                                             similar_events)
        IN  /\ response' = [ op |-> "query",
                             echo |-> IF context # "" THEN context
                                      ELSE "No relevant context found." ]
            /\ asked' = Asked(arguments.query_text, arguments.max_tokens, 0, None,
                              similar_events)
            /\ validated' = NoCall
            /\ UNCHANGED <<tokenVars, envVars, storeVars>>

\* What every ingestion handler does to the stores, for the stores done that
\* its writes leave and the reply it gives.
Ingested(done, reply) ==
    /\ events' = done.events
    /\ collection' = done.collection
    /\ event_ids' = done.event_ids
    /\ writes' = done.writes
    /\ response' = reply
    /\ validated' = NoCall
    /\ asked' = NoCall
    /\ UNCHANGED <<tokenVars, envVars>>

\* Mynd.initial_capture
initial_capture ==
    /\ event_ids + Len(initial_capture_demo_events) <= MaxEvents
    /\ \E outcome \in [1..Len(initial_capture_demo_events) -> FragmentOutcomes] :
       \E done \in { initial_capture_loop(1, outcome, Stores) } :
           Ingested(done, initial_capture_returns(done.events_created))

\* The CLI command demo
demo ==
    /\ event_ids + Len(cli_demo_events) <= MaxEvents
    /\ \E outcome \in [1..Len(cli_demo_events) -> FragmentOutcomes] :
       \E done \in { demo_loop(1, outcome, Stores) } :
           Ingested(done, [op |-> "demo", echo |-> "Demo data created!"])

\* POST /api/demo/load
load_demo_data ==
    /\ event_ids + Len(load_demo_events) <= MaxEvents
    /\ \E outcome \in [1..Len(load_demo_events) -> FragmentOutcomes] :
       \E done \in { load_demo_data_loop(1, outcome, Stores) } :
           Ingested(done, load_demo_data_returns(done.events_created))

\* POST /api/memory/add
add_memory ==
    /\ event_ids < MaxEvents /\ event_ids < MaxMemories
    /\ \E event \in MemoryEvents, outcome \in FragmentOutcomes :
       \E semantic_event \in { create_semantic_event(event_ids + 1, event.source_type, "api",
                                                     event.content, event.metadata,
                                                     outcome.llm) } :
       \E done \in { store_then_index(Stores, event.content, semantic_event, outcome) } :
           Ingested(done, add_memory_returns(done.writes[1].stored, semantic_event.id))

\* POST /api/chat
chat ==
    \E message \in ChatMessages :
        IF message.use_memory
        THEN /\ event_ids < MaxEvents /\ event_ids < MaxMemories
             /\ \E outcome \in FragmentOutcomes :
                \E event \in { create_semantic_event(event_ids + 1, "user_input",
                                                     "web_interface", message.message,
                                                     [timestamp |-> isoformat(now)],
                                                     outcome.llm) } :
                \E done \in { store_and_index(Stores, message.message, event, outcome) } :
                \E memory_events \in search_similar(done.collection, message.message, 10) :
                \E text \in { Strip(best_content) : best_content \in
                                chat_candidates(memory_events, message.message) }
                            \cup { generate_ai_response(message.message) } :
                    Ingested(done, chat_returns(text, TRUE))
        ELSE /\ response' = chat_returns(generate_ai_response(message.message), FALSE)
             /\ validated' = NoCall
             /\ asked' = NoCall
             /\ UNCHANGED <<tokenVars, envVars, storeVars>>

\* MyndDB.store_event called once more by a caller that retries: with a fragment
\* the last ingestion made, whether or not the table took it then.
store_event ==
    \E i \in 1..Len(writes), ok \in BOOLEAN :
        LET event == writes[i].event
        IN  /\ events' = db_store_event(events, event, ok)
            /\ response' = [ op |-> "store_event", id |-> event.id,
                             existed |-> event.id \in DOMAIN events, sqlite_ok |-> ok,
                             returned |-> db_store_event_returns(events, event, ok) ]
            /\ validated' = NoCall
            /\ asked' = NoCall
            /\ UNCHANGED <<tokenVars, envVars, collection, event_ids, writes>>

\* ---------------------------------------------------------- specifications

\* await extractor.extract_semantic_meaning(content)
extract_semantic_meaning ==
    /\ \E event \in MemoryEvents, outcome \in LlmOutcomes :
           response' = [ op |-> "extract_semantic_meaning", content |-> event.content,
                         llm |-> IF llm_available THEN outcome ELSE "not_called",
                         outcome |-> extraction_of[event.content][llm_available][outcome] ]
    /\ validated' = NoCall
    /\ asked' = NoCall
    /\ UNCHANGED <<tokenVars, envVars, storeVars>>

\* The server, the web application and the CLI over one data directory.
Next ==
    \/ Tick
    \/ create_capability_token
    \/ get_statistics
    \/ revoke_token
    \/ start_background_tasks
    \/ get_context
    \/ search_context
    \/ query
    \/ initial_capture
    \/ demo
    \/ load_demo_data
    \/ add_memory
    \/ chat
    \/ store_event
    \/ extract_semantic_meaning

Spec == Init /\ [][Next]_vars

\* The token lifecycle: issue, validate, revoke and sweep as time passes.
\* get_statistics is the handler that validates a token and does nothing else
\* to the state; the handlers that go on to query are in ContextSpec.
LifecycleNext ==
    \/ Tick
    \/ create_capability_token
    \/ get_statistics
    \/ revoke_token
    \/ start_background_tasks

LifecycleInit == Init /\ available = TRUE /\ llm_available = FALSE

LifecycleSpec == LifecycleInit /\ [][LifecycleNext]_vars

\* Context requests under tokens that are issued and revoked; a token issued
\* with ttl_seconds = 0 is expired from the start.
AccessNext ==
    \/ create_capability_token
    \/ revoke_token
    \/ get_context

AccessSpec == LifecycleInit /\ [][AccessNext]_vars

\* The token lifecycle across restarts of the server process.
RestartNext ==
    \/ Tick
    \/ create_capability_token
    \/ get_statistics
    \/ revoke_token
    \/ MCPServer_init

RestartSpec == LifecycleInit /\ [][RestartNext]_vars

\* Revocation among tokens that are issued and expire as time passes.
RevokeNext ==
    \/ Tick
    \/ create_capability_token
    \/ revoke_token

RevokeSpec == LifecycleInit /\ [][RevokeNext]_vars

\* Revocation and the sweep at one instant: tokens are issued, some of them
\* expired from the start, revoked, and swept from the map and the table.
FrameNext ==
    \/ create_capability_token
    \/ revoke_token
    \/ start_background_tasks

FrameSpec == LifecycleInit /\ [][FrameNext]_vars

\* A server that has answered two POST /api/tokens, of any two bodies (the
\* INSERTs of the rows and of the audit entries failed): no caller presented a
\* credential to get the first token, nor the second.
ScopeInit ==
    /\ now = 0
    /\ \E first, second \in TokenRequests :
       \E tokens \in { << CapabilityToken_create(1, first.client_id, first.scope,
                                                 first.ttl_seconds, first.max_tokens),
                          CapabilityToken_create(2, second.client_id, second.scope,
                                                 second.ttl_seconds, second.max_tokens) >> } :
           /\ active_tokens = tokens
           /\ issued = tokens
           /\ response = [ op |-> "create_capability_token", status |-> 200,
                           token |-> 2, expires_at |-> tokens[2].expires_at,
                           scope |-> tokens[2].scope, max_tokens |-> tokens[2].max_tokens ]
    /\ capability_tokens = {}
    /\ audit_log = <<>>
    /\ validated = NoCall
    /\ revoked = {}
    /\ rejected = {}
    /\ available = TRUE
    /\ llm_available = FALSE
    /\ events = EmptyMap
    /\ collection = EmptyMap
    /\ event_ids = 0
    /\ writes = <<>>
    /\ asked = NoCall

\* Two tokens in the hands of their clients, presented and revoked as time passes.
ScopeSpec == ScopeInit /\ [][Tick \/ get_statistics \/ revoke_token]_vars

\* Context queries over what POST /api/memory/add has stored.
ContextNext ==
    \/ create_capability_token
    \/ add_memory
    \/ get_context
    \/ search_context
    \/ query

ContextInit == Init /\ llm_available = FALSE

ContextSpec == ContextInit /\ [][ContextNext]_vars

\* The ingestion paths and the retry of a record store write.
IngestNext ==
    \/ initial_capture
    \/ demo
    \/ load_demo_data
    \/ add_memory
    \/ chat
    \/ store_event

IngestSpec == Init /\ [][IngestNext]_vars

\* The extractor alone: fragments made by POST /api/memory/add, and the
\* asynchronous extraction called on the same contents.
ExtractNext ==
    \/ add_memory
    \/ extract_semantic_meaning

ExtractInit == Init /\ available = TRUE

ExtractSpec == ExtractInit /\ [][ExtractNext]_vars

\* The stores that the CLI command demo leaves in an empty data directory when
\* the LLM, the record store and the index all answer.
DemoStores ==
    demo_loop(1, [ i \in 1..Len(cli_demo_events) |-> [llm |-> TRUE, db |-> TRUE, vec |-> TRUE] ],
              [ events |-> EmptyMap, collection |-> EmptyMap, event_ids |-> 0,
                writes |-> <<>>, events_created |-> 0 ])

\* A server started on the data directory that the CLI command demo filled.
AssembleInit ==
    /\ now = 0
    /\ active_tokens = EmptyMap
    /\ capability_tokens = {}
    /\ audit_log = <<>>
    /\ response = [op |-> "none"]
    /\ validated = NoCall
    /\ issued = EmptyMap
    /\ revoked = {}
    /\ rejected = {}
    /\ available = TRUE
    /\ llm_available = TRUE
    /\ events = DemoStores.events
    /\ collection = DemoStores.collection
    /\ event_ids = DemoStores.event_ids
    /\ writes = <<>>
    /\ asked = NoCall

\* Context queries over the demo data.
AssembleNext ==
    \/ create_capability_token
    \/ get_context

AssembleSpec == AssembleInit /\ [][AssembleNext]_vars

\* A server over the data directory that the CLI command demo filled, after its
\* first POST /api/tokens, whose two INSERTs (token row, audit entry) failed.
BudgetInit ==
    /\ now = 0
    /\ \E request \in TokenRequests :
       \E token \in { CapabilityToken_create(1, request.client_id, request.scope,
                                             request.ttl_seconds, request.max_tokens) } :
           /\ active_tokens = Put(EmptyMap, 1, token)
           /\ issued = Put(EmptyMap, 1, token)
           /\ response = [ op |-> "create_capability_token", status |-> 200,
                           token |-> 1, expires_at |-> token.expires_at,
                           scope |-> token.scope, max_tokens |-> token.max_tokens ]
    /\ capability_tokens = {}
    /\ audit_log = <<>>
    /\ validated = NoCall
    /\ revoked = {}
    /\ rejected = {}
    /\ available = TRUE
    /\ llm_available = TRUE
    /\ events = DemoStores.events
    /\ collection = DemoStores.collection
    /\ event_ids = DemoStores.event_ids
    /\ writes = <<>>
    /\ asked = NoCall

\* The two handlers that assemble a context under a token's budget.
BudgetNext ==
    \/ get_context
    \/ search_context

BudgetSpec == BudgetInit /\ [][BudgetNext]_vars

\* The CLI on a data directory that the CLI command demo filled, with the
\* record store in service and whatever the LLM and the index did.
QueryInit ==
    /\ now = 0
    /\ active_tokens = EmptyMap
    /\ capability_tokens = {}
    /\ audit_log = <<>>
    /\ response = [op |-> "none"]
    /\ validated = NoCall
    /\ issued = EmptyMap
    /\ revoked = {}
    /\ rejected = {}
    /\ available = TRUE
    /\ llm_available \in BOOLEAN
    /\ \E outcome \in [ 1..Len(cli_demo_events) -> { o \in FragmentOutcomes : o.db } ] :
         \E done \in { demo_loop(1, outcome,
                                  [ events |-> EmptyMap, collection |-> EmptyMap,
                                    event_ids |-> 0, writes |-> <<>>,
                                    events_created |-> 0 ]) } :
            /\ events = done.events
            /\ collection = done.collection
            /\ event_ids = done.event_ids
    /\ writes = <<>>
    /\ asked = NoCall

QueryNext == query

QuerySpec == QueryInit /\ [][QueryNext]_vars

\* ------------------------------------------------------------- properties

\* The token the last validate_token call was about, as it was issued.
ValidatedToken == issued[validated.token_id]

ContextAnswered ==
    /\ response.op \in {"get_context", "search_context"}
    /\ response.status = 200
    /\ asked.called

\* The context the last context query returned, over the API or on the CLI.
ReturnedContext ==
    IF response.op = "query" THEN response.echo ELSE response.data.context

\* C2: every successful /api/context and /api/search response has
\* tokens_used <= min(request.max_tokens, token.max_tokens), whatever the
\* search returned.
C2_TokensUsedWithinBudget ==
    ContextAnswered
    => response.data.tokens_used <= Min(asked.request_max_tokens, asked.token_max_tokens)

\* A successful response, given with the index in service, whose tokens_used
\* is above the max_tokens of its request.
C2_OverBudget ==
    /\ ContextAnswered
    /\ available
    /\ response.data.tokens_used > asked.request_max_tokens

\* C5: MyndDB.store_event called with a fragment whose id the events table
\* holds already leaves one record with that id and returns success.
C5_StoreEventIdempotent ==
    (/\ response.op = "store_event"
     /\ response.existed
     /\ response.sqlite_ok)
    => (response.returned /\ response.id \in DOMAIN events)

\* A second store_event of a stored fragment, with no other fault of SQLite,
\* that returns False.
C5_SecondPutFails ==
    /\ response.op = "store_event"
    /\ response.existed
    /\ response.sqlite_ok
    /\ ~response.returned
    /\ response.id \in DOMAIN events

\* C6: every ingestion handler calls the index for a fragment only after the
\* record store has taken that fragment, so every id of the index is an id of
\* the events table.
C6_IndexOnlyAfterRecord ==
    /\ \A i \in 1..Len(writes) : writes[i].index_called => writes[i].stored
    /\ DOMAIN collection \subseteq DOMAIN events

\* A document of the index that has no row in the events table.
C6_OrphanedVector ==
    \E id \in DOMAIN collection : id \notin DOMAIN events

\* Some fragment of the last ingestion is in the events table and was refused
\* by the index.
PartialWrite ==
    \E i \in 1..Len(writes) : writes[i].stored /\ ~writes[i].indexed

\* How many fragments of the last ingestion the events table took.
StoredCount == Cardinality({ i \in 1..Len(writes) : writes[i].stored })

\* What the last handler returns when the index takes every fragment that the
\* events table took.
FullSuccessReply ==
    CASE response.op = "add_memory"      -> add_memory_returns(TRUE, writes[1].event.id)
      [] response.op = "load_demo_data"  -> load_demo_data_returns(StoredCount)
      [] response.op = "initial_capture" -> initial_capture_returns(StoredCount)

\* C7: when the record store takes a fragment and the index refuses it, the
\* handler's reply is not the reply of a full success, and is not an error.
C7_PartialSuccessReported ==
    (/\ response.op \in {"add_memory", "load_demo_data", "initial_capture"}
     /\ PartialWrite)
    => (/\ response # FullSuccessReply
        /\ response.op \in {"add_memory", "load_demo_data"} => response.success)

\* POST /api/memory/add stored a fragment that the index refused, and replied
\* as it does for a full success.
C7_PartialLooksFull ==
    /\ response.op = "add_memory"
    /\ PartialWrite
    /\ response = FullSuccessReply

\* The PII patterns the redaction filter names first: email, phone, payment card.
HasPii(text) ==
    \E pii_type \in {"email", "phone", "credit_card"} : ReSearch(pii_type, text)

\* C8: no summary in the events table and no document of the index holds a
\* substring that matches the email, phone or card pattern: every fragment is
\* made of content that went through remove_pii.
C8_StoredSummariesRedacted ==
    /\ \A id \in DOMAIN events : ~HasPii(events[id].semantic_summary)
    /\ \A id \in DOMAIN collection : ~HasPii(collection[id].content)

\* A stored summary that is the raw content, PII included, where remove_pii
\* would have changed it.
C8_RawSummaryStored ==
    \E i \in 1..Len(writes) :
        /\ writes[i].stored
        /\ HasPii(events[writes[i].event.id].semantic_summary)
        /\ remove_pii(writes[i].content) # writes[i].content

\* C9: with the index unavailable, a context query answers with a context made
\* of the rows search_events finds for the query, not with a message that the
\* search is unavailable.
C9_FallsBackToSearchEvents ==
    (asked.called /\ ~available)
    => (/\ ReturnedContext # "Vector search not available - install ChromaDB"
        /\ \A id \in search_events(events, asked.query) :
              Contains(ReturnedContext, events[id].semantic_summary))

\* With the index unavailable and a row that search_events finds for the
\* query, the answer is the unavailability message.
C9_UnavailableMessage ==
    /\ asked.called /\ ~available
    /\ search_events(events, asked.query) # {}
    /\ ReturnedContext = "Vector search not available - install ChromaDB"

\* C10: when the search returns no match, the response is the canonical
\* "no relevant context" result and its tokens_used is 0.
C10_NoMatchesZeroTokens ==
    (ContextAnswered /\ available /\ asked.matches = 0)
    => (/\ response.data.context = "No relevant context found in your memory."
        /\ response.data.tokens_used = 0)

\* A search without a match, answered with the canonical text and tokens_used 10.
C10_NoMatchesTenTokens ==
    /\ ContextAnswered /\ available /\ asked.matches = 0
    /\ response.data.context = "No relevant context found in your memory."
    /\ response.data.tokens_used = 10

\* The budget the last context query ran under.
Budget == Min(asked.request_max_tokens, asked.token_max_tokens)

\* The candidates of the last context query whose whole entry is in the context.
Included ==
    { i \in 1..asked.matches :
        Contains(ReturnedContext, context_entry(asked.similar_events, i)) }

\* The entries of every candidate of the last context query, rendered.
RenderedCandidates ==
    Join("", [ i \in 1..asked.matches |-> context_entry(asked.similar_events, i) ])

\* C11: with a budget of max_tokens = 200 and a non-empty result list whose
\* combined rendered size exceeds 200 tokens, the assembled context includes at
\* least one fragment and tokens_used <= 200.
C11_BudgetKeepsOneFragment ==
    (/\ ContextAnswered
     /\ Budget = 200
     /\ asked.matches > 0
     /\ Len(RenderedCandidates) \div 4 > 200)
    => (/\ Included # {}
        /\ response.data.tokens_used <= 200)

\* A budget of 200 and three candidates of more than 200 tokens together,
\* answered with a context that holds no fragment at all.
C11_NoFragmentIncluded ==
    /\ ContextAnswered
    /\ Budget = 200
    /\ asked.matches > 0
    /\ Len(RenderedCandidates) \div 4 > 200
    /\ Included = {}
    /\ \A i \in 1..asked.matches :
          ~Contains(response.data.context, asked.similar_events[i].content)

\* The max_tokens that get_context_for_query was called with: the budget of the
\* API request, or the --max-tokens of the CLI, which has no token.
AssemblyBudget ==
    IF response.op = "query" THEN asked.request_max_tokens ELSE Budget

\* The entries of the candidates in S, whole and in the order of the result list.
RECURSIVE WholeEntries(_, _, _)
WholeEntries(similar_events, S, i) ==
    IF i > Len(similar_events) THEN ""
    ELSE (IF i \in S THEN context_entry(similar_events, i) ELSE "")
         \o WholeEntries(similar_events, S, i + 1)

\* The tokens that get_context_for_query counts for the candidates in S.
RECURSIVE CostOf(_, _, _)
CostOf(similar_events, S, i) ==
    IF i > Len(similar_events) THEN 0
    ELSE (IF i \in S THEN Len(similar_events[i].content) \div 4 ELSE 0)
         + CostOf(similar_events, S, i + 1)

\* C12: entries are atomic: the assembled context is its heading, the complete
\* rendered entries (source tag, date and whole body) of some of the candidates,
\* nothing of the others, and its summary line; a candidate whose cost exceeds
\* the budget minus the margin of 200 is left out whole, never truncated.
C12_EntriesAtomic ==
    (asked.called /\ available /\ asked.matches > 0)
    => \E S \in SUBSET (1..asked.matches) :
         /\ ReturnedContext =
              "Relevant context for '" \o asked.query \o "':\n"
              \o WholeEntries(asked.similar_events, S, 1)
              \o "\nFound " \o ToString(asked.matches) \o " relevant memories using "
              \o ToString(CostOf(asked.similar_events, S, 1)) \o " tokens."
         /\ \A i \in 1..asked.matches :
              Len(asked.similar_events[i].content) \div 4 > AssemblyBudget - 200
              => i \notin S

\* A context that holds the whole entry of one candidate and nothing of the
\* next one, which did not fit.
C12_OneWholeOneLeftOut ==
    /\ asked.called /\ available
    /\ asked.matches > 1
    /\ Included = {1}
    /\ Len(asked.similar_events[2].content) \div 4 > AssemblyBudget - 200
    /\ ~Contains(ReturnedContext, Prefix(asked.similar_events[2].content, 20))

\* The token of the last validate_token call was unknown, revoked or expired
\* when the call was made.
CarriedBadToken ==
    /\ validated.called
    /\ \/ validated.token_id \notin DOMAIN issued
       \/ validated.revoked_before
       \/ validated.at >= issued[validated.token_id].expires_at

\* C13: a /api/context request that carries an expired, unknown or revoked
\* token is answered with HTTP 401, runs no search and appends no
\* context_accessed entry to the audit log.
C13_BadTokenNoAccess ==
    [][ (get_context /\ CarriedBadToken')
        => (/\ response'.status = 401
            /\ ~asked'.called
            /\ audit_log' = audit_log) ]_vars

\* /api/context refused with 401 for a token that was issued and has expired,
\* with no search made and no context_accessed entry in the log.
C13_ExpiredTokenRefused ==
    /\ response.op = "get_context"
    /\ response.status = 401
    /\ validated.called
    /\ validated.token_id \in DOMAIN issued
    /\ validated.at >= issued[validated.token_id].expires_at
    /\ ~asked.called
    /\ \A i \in 1..Len(audit_log) : audit_log[i].event_type # "context_accessed"

\* The tokens that are live: in the in-memory map and not expired.
Live == { t \in DOMAIN active_tokens : now < active_tokens[t].expires_at }

\* The requester's token is valid: issued, not revoked and not expired.
ValidRequester(requester) ==
    /\ requester \in DOMAIN issued
    /\ requester \notin revoked
    /\ now < issued[requester].expires_at

\* The requester may revoke the target: its token is valid and the target is its
\* own token or its scope is admin.
MayRevoke(target, requester) ==
    /\ ValidRequester(requester)
    /\ (target = requester \/ issued[requester].scope = "admin")

C15_IssueClampsToMaxima ==
    \A t \in DOMAIN issued :
        /\ issued[t].expires_at - issued[t].created_at <= default_ttl_seconds
        /\ issued[t].max_tokens <= default_max_tokens

\* A token issued with the max_tokens = 8000 that its request asked for.
C15_IssuedAboveMaximum ==
    /\ response.op = "create_capability_token"
    /\ response.status = 200
    /\ response.max_tokens = 8000
    /\ issued[response.token].max_tokens > default_max_tokens

\* The scopes the code knows: the default of TokenRequest and CapabilityToken,
\* and the one revoke_token tests for.
Scopes == {"context_read", "admin"}

\* C16: issue fails and creates no token when the scope is not one of the
\* closed set of scopes or when ttl_seconds <= 0: every token that was issued
\* has a known scope and was not expired at issuance, and it is in the
\* persisted table and the live set only if so.
C16_IssueRejectsMalformed ==
    /\ \A t \in DOMAIN issued :
          /\ issued[t].scope \in Scopes
          /\ issued[t].created_at < issued[t].expires_at
    /\ \A r \in capability_tokens : r.scope \in Scopes /\ r.created_at < r.expires_at
    /\ \A t \in DOMAIN active_tokens :
          /\ active_tokens[t].scope \in Scopes
          /\ active_tokens[t].created_at < active_tokens[t].expires_at

\* A request with ttl_seconds = 0 answered with success: its token is in the
\* live map and in the persisted table, and expired at issuance.
C16_IssuedExpired ==
    /\ response.op = "create_capability_token"
    /\ response.status = 200
    /\ response.token \in DOMAIN active_tokens
    /\ \E r \in capability_tokens : r.token_id = response.token
    /\ issued[response.token].expires_at <= issued[response.token].created_at
    /\ issued[response.token].scope \notin Scopes

\* x is a truncated one-way digest, not the text it was made of.
IsDigest(x) == DOMAIN x = {"sha256_16_of"}

\* C17: no audit_log row holds a raw token id or a raw query text: the token
\* field of every entry written by issue, context access and revoke is the
\* truncated digest of the token id, and the query field is the truncated
\* digest of the query or, where there is no query, empty.
C17_AuditHoldsDigestsOnly ==
    \A i \in 1..Len(audit_log) :
        /\ audit_log[i].event_type \in {"token_created", "context_accessed", "token_revoked"}
        /\ IsDigest(audit_log[i].capability_token_hash)
        /\ IF audit_log[i].event_type = "context_accessed"
           THEN IsDigest(audit_log[i].query_hash)
           ELSE audit_log[i].query_hash = ""
        /\ audit_log[i].ai_client \notin { r.query : r \in ContextRequests }

\* A context access in the log, under the digests of its token and its query.
C17_AccessLoggedHashed ==
    \E i \in 1..Len(audit_log) :
        /\ audit_log[i].event_type = "context_accessed"
        /\ IsDigest(audit_log[i].capability_token_hash)
        /\ audit_log[i].capability_token_hash.sha256_16_of \in DOMAIN issued
        /\ IsDigest(audit_log[i].query_hash)
        /\ audit_log[i].query_hash.sha256_16_of = "postgresql"

\* The kind of audit entry that belongs to a handler.
AuditKind(op) ==
    CASE op = "create_capability_token" -> "token_created"
      [] op \in {"get_context", "search_context"} -> "context_accessed"
      [] op = "revoke_token" -> "token_revoked"

C20_ValidateAsksTheAuthority ==
    ( /\ validated.called
      /\ validated.token_id \in DOMAIN issued
      /\ \E r \in capability_tokens : r.token_id = validated.token_id
      /\ validated.at < issued[validated.token_id].expires_at
      /\ ~validated.revoked_before )
    => validated.ok

\* A token in the capability_tokens table, not expired and never revoked,
\* refused as invalid because the map no longer holds it.
C20_PersistedTokenRefused ==
    /\ validated.called
    /\ validated.token_id \in DOMAIN issued
    /\ \E r \in capability_tokens : r.token_id = validated.token_id
    /\ validated.at < issued[validated.token_id].expires_at
    /\ ~validated.revoked_before
    /\ ~validated.ok
    /\ validated.status = 401
    /\ validated.detail = "Invalid capability token"

\* ------------------------------------------------------------------- C21

\* What the deterministic fallback extracts from each content, as given and redacted
FallbackOf ==
    [ content \in KnownContents |-> [ given |-> _extract_fallback(content),
                                      redacted |-> _extract_fallback(remove_pii(content)) ] ]

\* C21: no failure of the language model reaches the caller of the extractor:
\* extract_semantic_meaning always returns, with the fallback's extraction of
\* the redacted content whenever the model was not called or gave no JSON, and
\* create_semantic_event always hands add_memory a fragment, whose summary is
\* the fallback's whenever the model is unavailable.
C21_ExtractionNeverFails ==
    /\ response.op = "extract_semantic_meaning"
       => /\ DOMAIN response.outcome = {"returned"}
          /\ response.llm \notin {"json", "json_without_decision_context"}
             => response.outcome.returned = FallbackOf[response.content].redacted
    /\ response.op = "add_memory"
       => /\ Len(writes) = 1
          /\ writes[1].event.id = response.event_id
          /\ ~llm_available
             => writes[1].event.semantic_summary = FallbackOf[writes[1].content].given.summary

\* The model's client raised an error that _extract_with_llm does not catch,
\* and extract_semantic_meaning ended with it.
C21_ExtractionErrorSurfaced ==
    /\ response.op = "extract_semantic_meaning"
    /\ llm_available
    /\ response.llm = "ResponseError"
    /\ response.outcome = Raises("ResponseError")

\* ------------------------------------------------------------------- C22

\* The running total of the loop once it has gone through the candidates up to
\* rank i: the tokens it counted for those of them it accepted.
RunningTotal(i) == CostOf(SubSeq(asked.similar_events, 1, i), Included, 1)

\* C22: with B = min(request.max_tokens, token.max_tokens), the running total
\* of the accepted candidates is at most B at every step of the loop, and a
\* candidate is accepted only if the running total plus its cost is at most
\* B - 200.
C22_RunningTotalWithinBudget ==
    (ContextAnswered /\ available)
    => \A i \in 1..asked.matches :
         /\ RunningTotal(i) <= Budget
         /\ i \in Included
            => RunningTotal(i - 1) + Len(asked.similar_events[i].content) \div 4
               <= Budget - 200

\* A request for 2000 tokens under a token of 300: the budget is the token's,
\* the first candidate was accepted and the second, which did not fit, was not.
C22_TokenBudgetBinds ==
    /\ ContextAnswered /\ available
    /\ asked.request_max_tokens = 2000
    /\ Budget = 300
    /\ asked.matches > 1
    /\ 1 \in Included
    /\ 2 \notin Included
    /\ RunningTotal(1) > 0
    /\ RunningTotal(1) + Len(asked.similar_events[2].content) \div 4 > Budget - 200

\* ------------------------------------------------------------------- C23

\* "Found N relevant memories using T tokens.", for the T given
SummaryLine(T) ==
    "\nFound " \o ToString(asked.matches) \o " relevant memories using "
    \o ToString(T) \o " tokens."

\* The rendered cost of the included entries: source tag, date and body, at
\* four characters a token.
RenderedCost ==
    Len(WholeEntries(asked.similar_events, Included, 1)) \div 4

\* C23: tokens_used of a context response is T, the running total that the
\* summary line "Found N relevant memories using T tokens" reports, and T
\* charges each included entry its rendered cost.
C23_TokensUsedIsRunningTotal ==
    (ContextAnswered /\ available /\ asked.matches > 0)
    => /\ Contains(ReturnedContext, SummaryLine(response.data.tokens_used))
       /\ response.data.tokens_used = RenderedCost

\* A context whose summary line reports the T of the bodies of its entries,
\* answered with a tokens_used that is neither that T nor the rendered cost.
C23_TokensUsedIsNotTheTotal ==
    /\ ContextAnswered /\ available
    /\ Included # {}
    /\ \E T \in { CostOf(asked.similar_events, Included, 1) } :
         /\ Contains(ReturnedContext, SummaryLine(T))
         /\ response.data.tokens_used > T
         /\ T < RenderedCost
    /\ response.data.tokens_used # RenderedCost

\* ------------------------------------------------------------------- C24

\* The source kind of candidate i of the last context query
KindOf(i) == Get(asked.similar_events[i].metadata, "source_type", "unknown")

\* C24: the sources of a context response are the source kinds of the entries
\* included in the context, each listed once, and no other kind.
C24_SourcesAreIncludedKinds ==
    (ContextAnswered /\ available)
    => \E sources \in { response.data.sources } :
         /\ { sources[k] : k \in 1..Len(sources) } = { KindOf(i) : i \in Included }
         /\ \A j, k \in 1..Len(sources) : sources[j] = sources[k] => j = k

\* A context that includes every candidate, of known kinds, returned with an
\* empty list of sources.
C24_IncludedKindsNotListed ==
    /\ ContextAnswered /\ available
    /\ asked.matches > 0
    /\ Included = 1..asked.matches
    /\ \A i \in Included : Contains(ReturnedContext, ". [" \o KindOf(i) \o "] (")
    /\ response.data.sources = <<>>

\* ------------------------------------------------------------------- C25

\* C25: when a /api/context request supplies source_types, every entry included
\* in the returned context is of one of the requested source kinds.
C25_SourceTypesFilterApplied ==
    (ContextAnswered /\ available /\ asked.source_types # None)
    => \A i \in Included :
         \E k \in 1..Len(asked.source_types) : KindOf(i) = asked.source_types[k]

\* A request for the kind document alone, answered with a context that
\* includes an entry of the kind browser.
C25_OtherKindIncluded ==
    /\ ContextAnswered /\ available
    /\ response.op = "get_context"
    /\ asked.source_types = <<"document">>
    /\ \E i \in Included :
         /\ KindOf(i) = "browser"
         /\ Contains(ReturnedContext, asked.similar_events[i].content)

\* ------------------------------------------------------------------- C26

\* C26: one run of the background sweep removes from active_tokens and from
\* the capability_tokens table exactly the tokens whose expires_at has passed:
\* none that has expired is left in either, none that has not is removed.
C26_SweepRemovesExactlyExpired ==
    [][ start_background_tasks
        => /\ DOMAIN active_tokens'
              = { t \in DOMAIN active_tokens : now < active_tokens[t].expires_at }
           /\ capability_tokens' = { r \in capability_tokens : now < r.expires_at } ]_vars

\* A token that has expired and that the sweep has taken out of active_tokens
\* (it was never revoked, and never refused by validate_token), with its row
\* still in the capability_tokens table.
C26_ExpiredRowLeft ==
    \E t \in DOMAIN issued :
        /\ t \notin DOMAIN active_tokens
        /\ t \notin revoked
        /\ t \notin rejected
        /\ issued[t].expires_at <= now
        /\ \E r \in capability_tokens : r.token_id = t /\ r.expires_at <= now

\* ------------------------------------------------------------------- C27

\* The tokens the loop counts for candidate i of the last context query
EventTokens(i) == Len(asked.similar_events[i].content) \div 4

\* C27: the entries included in a context are a prefix of the ranked results:
\* the loop stops at the first candidate that does not fit, and includes no
\* candidate ranked after it, even one that would still fit.
C27_IncludedIsPrefix ==
    (asked.called /\ available)
    => \E k \in 0..asked.matches :
         /\ Included = 1..k
         /\ k < asked.matches
            => RunningTotal(k) + EventTokens(k + 1) > AssemblyBudget - 200

\* The first-ranked candidate did not fit and nothing is included, although a
\* candidate ranked after it would have fitted the budget by itself.
C27_LaterFitLeftOut ==
    /\ asked.called /\ available
    /\ asked.matches > 1
    /\ EventTokens(1) > AssemblyBudget - 200
    /\ Included = {}
    /\ \E j \in 2..asked.matches :
         /\ EventTokens(j) <= AssemblyBudget - 200
         /\ ~Contains(ReturnedContext, asked.similar_events[j].content)

\* ------------------------------------------------------------------- C28

C29_NoRevocationOfOthers ==
    [][ \A target, requester \in Presentable :
          (response'.op = "revoke_token" /\ revoke_token_of(target, requester))
          => /\ requester \in DOMAIN issued => issued[requester].scope # "admin"
             /\ (target \in Live /\ target \notin Live' /\ requester \in DOMAIN issued)
                => issued[target].client_id = issued[requester].client_id ]_vars

\* The token that POST /api/tokens gave to a body asking for the scope admin
\* has revoked the live token of another client.
C29_AdminByRequestRevokedOther ==
    /\ response.op = "revoke_token"
    /\ response.status = 200
    /\ validated.ok
    /\ issued[validated.token_id].scope = "admin"
    /\ \E t \in revoked :
         /\ t # validated.token_id
         /\ issued[t].client_id # issued[validated.token_id].client_id
         /\ now < issued[t].expires_at
         /\ t \notin DOMAIN active_tokens

\* ------------------------------------------------------------------- C30

====
